---------------------------- MODULE Spec2Model ----------------------------
(***************************************************************************)
(* Model of src/utils/cepAPI.js: the CepAPI class (postal-code lookup,     *)
(* validation, formatting, form filling and inline error display).         *)
(*                                                                         *)
(* Strings that the code takes apart (postal codes) are sequences of       *)
(* one-character strings; messages are sequences of string pieces; form    *)
(* values are atomic strings.                                              *)
(***************************************************************************)
EXTENDS Integers, Sequences, FiniteSets, TLC

VARIABLES
    doc,       \* children of the form container, in document order
    value,     \* value property of every input element, by id
    els,       \* every <div id="cep-erro"> created so far: text and display
    timers,    \* pending setTimeout callbacks (the element each one captured)
    fetchLog,  \* URLs handed to fetch, in order
    last       \* the most recent step: operation, inputs, outcome, callbacks

vars == <<doc, value, els, timers, fetchLog, last>>

---------------------------------------------------------------------------
(* Bounds of the model *)

\* longest raw string given to validarCep / formatarCep
MaxLen == 9
\* most setTimeout callbacks pending at once
MaxTimers == 2
\* most error elements ever created
MaxEls == 2
\* most keys the caller's field mapping overrides
MaxOverrides == 1
\* most requests handed to fetch in one behaviour
MaxFetch == 2

---------------------------------------------------------------------------
(* Strings *)

Digits == {"0", "1", "2", "3", "4", "5", "6", "7", "8", "9"}

\* characters the raw strings are drawn from: two digits and a non-digit
Alphabet == {"0", "1", "-"}

IsDigit(c) == c \in Digits

StringsOfLen(n) == [1..n -> Alphabet]

Strings == UNION {StringsOfLen(n) : n \in 0..MaxLen}

\* cep.replace(/\D/g, '')
StripNonDigits(s) == SelectSeq(s, IsDigit)

\* /^\d{8}$/.test(cep)   (the body of the validarCep text at lines 46-48)
ValidarCepRegex(cep) == Len(cep) = 8 /\ \A i \in 1..Len(cep) : IsDigit(cep[i])

\* /(\d{5})(\d{3})/ matches at position i of s
MatchesAt(s, i) == i + 7 <= Len(s) /\ \A j \in i..(i + 7) : IsDigit(s[j])

\* leftmost match of /(\d{5})(\d{3})/ in s, 0 when there is none
FirstMatch(s) ==
    IF \E i \in 1..Len(s) : MatchesAt(s, i)
    THEN CHOOSE i \in 1..Len(s) :
             MatchesAt(s, i) /\ \A j \in 1..(i - 1) : ~MatchesAt(s, j)
    ELSE 0

\* s.replace(/(\d{5})(\d{3})/, '$1-$2'): the first match only (no g flag)
ReplaceFirstCep(s) ==
    LET i == FirstMatch(s) IN
    IF i = 0 THEN s
    ELSE SubSeq(s, 1, i - 1) \o SubSeq(s, i, i + 4) \o <<"-">>
         \o SubSeq(s, i + 5, i + 7) \o SubSeq(s, i + 8, Len(s))

\* a mutant of FormatarCep: the pattern anchored to the whole string
FormatarCepAnchored(cep) ==
    LET cepLimpo == StripNonDigits(cep) IN
    IF Len(cepLimpo) = 8 THEN ReplaceFirstCep(cepLimpo) ELSE cepLimpo

\* formatarCep(cep)
FormatarCep(cep) ==
    LET cepLimpo == StripNonDigits(cep) IN ReplaceFirstCep(cepLimpo)

---------------------------------------------------------------------------
(* The class and its errors *)

\* the methods the class body defines: the comment opened at line 42 is
\* closed only at line 54, so the text of validarCep (lines 46-48) is part
\* of a comment and the class has no such method
ClassMethods ==
    {"buscarCep", "formatarCep", "preencherEndereco", "buscarEPreencher",
     "mostrarErro", "removerErro"}

BaseURL == "https://brasilapi.com.br/api/cep/v1"

Err(name, message) == [name |-> name, message |-> message]

\* calling a property that is undefined
NotAFunction(method) == Err("TypeError", <<"this.", method, " is not a function">>)

ErrCepInvalido == Err("Error", <<"CEP deve ter 8 digitos">>)
ErrCepNaoEncontrado == Err("Error", <<"CEP nao encontrado">>)
ErrApi(status) == Err("Error", <<"Erro na API: ", ToString(status)>>)
\* what fetch rejects with when there is no response
ErrRede == Err("TypeError", <<"Failed to fetch">>)

Return(v) == [kind |-> "return", val |-> v]
Throw(e) == [kind |-> "throw", val |-> e]
NoOutcome == [kind |-> "none", val |-> <<>>]

\* this.validarCep(cep), as a call on an instance of the class
ValidarCep(cep) ==
    IF "validarCep" \in ClassMethods
    THEN Return(ValidarCepRegex(cep))
    ELSE Throw(NotAFunction("validarCep"))

---------------------------------------------------------------------------
(* The document *)

Node(id) == [id |-> id, n |-> 0]
\* the k-th <div id="cep-erro"> the code created
ErrNode(k) == [id |-> "cep-erro", n |-> k]

\* document.getElementById(id): the position in d of the first node with
\* that id, 0 when there is none (null)
GetElementById(d, id) ==
    IF \E i \in 1..Len(d) : d[i].id = id
    THEN CHOOSE i \in 1..Len(d) :
             d[i].id = id /\ \A j \in 1..(i - 1) : d[j].id # id
    ELSE 0

\* parent.insertBefore(node, d[c].nextSibling)
InsertAfter(d, c, node) ==
    SubSeq(d, 1, c) \o <<node>> \o SubSeq(d, c + 1, Len(d))

IdsOf(d) == {d[i].id : i \in 1..Len(d)}

\* pages the code runs in: the complete address form, one whose postal-code
\* input has another id, one without the custom city input, a sparse one
LayoutFull ==
    <<Node("cep"), Node("rua"), Node("bairro"), Node("cidade"),
      Node("estado"), Node("city-input")>>
LayoutNoCep ==
    <<Node("rua"), Node("bairro"), Node("cidade"), Node("estado"),
      Node("city-input")>>
LayoutNoCityInput ==
    <<Node("cep"), Node("rua"), Node("bairro"), Node("cidade"),
      Node("estado")>>
LayoutSparse == <<Node("cep"), Node("estado")>>

Layouts == {LayoutFull, LayoutNoCep, LayoutNoCityInput, LayoutSparse}

\* what the inputs hold before the code touches them
OldValue == "old"

---------------------------------------------------------------------------
(* preencherEndereco *)

\* camposPadrao
CamposPadrao ==
    [cidade |-> "cidade", bairro |-> "bairro", rua |-> "rua",
     estado |-> "estado", cep |-> "cep"]

\* Object.keys order of { ...camposPadrao, ...campos }: the default keys in
\* the order of the literal, then the caller's new keys
KeyOrder == <<"cidade", "bairro", "rua", "estado", "cep", "city">>

\* { ...camposPadrao, ...campos }
CamposFinais(campos) ==
    [k \in DOMAIN CamposPadrao \cup DOMAIN campos |->
        IF k \in DOMAIN campos THEN campos[k] ELSE CamposPadrao[k]]

\* Object.keys(camposFinais)
KeysOf(finais) == SelectSeq(KeyOrder, LAMBDA k : k \in DOMAIN finais)

\* dadosCep[campo] is truthy: defined and not the empty string
Truthy(dadosCep, campo) == campo \in DOMAIN dadosCep /\ dadosCep[campo] # ""

\* a mutant of FillOne: the field is written whenever the record has it
FillOnePresent(val, d, finais, dadosCep, campo) ==
    IF GetElementById(d, finais[campo]) # 0 /\ campo \in DOMAIN dadosCep
    THEN [val EXCEPT ![finais[campo]] = dadosCep[campo]]
    ELSE val

\* the body of the forEach callback, lines 78-81
FillOne(val, d, finais, dadosCep, campo) ==
    IF GetElementById(d, finais[campo]) # 0 /\ Truthy(dadosCep, campo)
    THEN [val EXCEPT ![finais[campo]] = dadosCep[campo]]
    ELSE val

RECURSIVE FillAll(_, _, _, _, _)
FillAll(val, d, finais, dadosCep, keys) ==
    IF keys = <<>> THEN val
    ELSE FillAll(FillOne(val, d, finais, dadosCep, Head(keys)),
                 d, finais, dadosCep, Tail(keys))

\* preencherEndereco(dadosCep, campos): the values of the inputs afterwards
PreencherEndereco(val, d, dadosCep, campos) ==
    LET finais == CamposFinais(campos) IN
    FillAll(val, d, finais, dadosCep, KeysOf(finais))

---------------------------------------------------------------------------
(* buscarCep *)

HttpResponse(status, body) == [kind |-> "http", status |-> status, body |-> body]
\* fetch rejects: no response at all
NetworkFailure == [kind |-> "network", status |-> 0, body |-> <<>>]

\* response.ok
Ok(resp) == resp.status >= 200 /\ resp.status <= 299

\* the body of the spec's example answer
BodyPaulista ==
    [cep |-> "01310-100", state |-> "SP", city |-> "Sao Paulo",
     neighborhood |-> "Bela Vista", street |-> "Avenida Paulista"]

Responses ==
    {HttpResponse(200, BodyPaulista), HttpResponse(404, <<>>),
     HttpResponse(500, <<>>), NetworkFailure}

Url(cepLimpo) == <<BaseURL, "/", cepLimpo>>

\* lines 24-34: the request and the reading of the response
FetchAndDecode(cepLimpo, resp) ==
    LET out == IF resp.kind = "network" THEN Throw(ErrRede)
               ELSE IF ~Ok(resp)
                    THEN IF resp.status = 404 THEN Throw(ErrCepNaoEncontrado)
                         ELSE Throw(ErrApi(resp.status))
                    ELSE Return(resp.body)
    IN [outcome |-> out, fetches |-> <<Url(cepLimpo)>>]

\* buscarCep(cep) when the service would answer resp: the outcome, the URLs
\* fetched and what console.error was given
BuscarCepRun(cep, resp) ==
    LET cepLimpo == StripNonDigits(cep)
        valid == ValidarCep(cepLimpo)
        r == IF valid.kind = "throw"
             THEN [outcome |-> valid, fetches |-> <<>>]
             ELSE IF ~valid.val
                  THEN [outcome |-> Throw(ErrCepInvalido), fetches |-> <<>>]
                  ELSE FetchAndDecode(cepLimpo, resp)
    IN [outcome |-> r.outcome,
        fetches |-> r.fetches,
        logged |-> IF r.outcome.kind = "throw" THEN <<r.outcome.val>> ELSE <<>>]

---------------------------------------------------------------------------
(* mostrarErro, removerErro and the timer *)

\* a freshly created div: no text, no inline display
NewEl == [text |-> <<>>, display |-> ""]

\* lines 121-134: the element mostrarErro works on (an index of els), with
\* the document and the elements after the lookup-or-create
FindOrCreate(d, es) ==
    LET i == GetElementById(d, "cep-erro")
        c == GetElementById(d, "cep")
        k == Len(es) + 1
    IN IF i # 0
       THEN [el |-> d[i].n, doc |-> d, els |-> es]
       ELSE [el |-> k,
             doc |-> IF c # 0 THEN InsertAfter(d, c, ErrNode(k)) ELSE d,
             els |-> Append(es, NewEl)]

\* a mutant of MostrarErroRun: the element is created anew on every call
MostrarErroAlwaysCreates(w, mensagem) ==
    LET c == GetElementById(w.doc, "cep")
        k == Len(w.els) + 1
    IN [w EXCEPT
          !.doc = IF c # 0 THEN InsertAfter(w.doc, c, ErrNode(k)) ELSE w.doc,
          !.els = Append(w.els, [text |-> mensagem, display |-> "block"]),
          !.timers = Append(w.timers, k)]

\* a mutant of MostrarErroRun: no auto-hide is scheduled
MostrarErroNoTimer(w, mensagem) ==
    LET f == FindOrCreate(w.doc, w.els) IN
    [w EXCEPT
       !.doc = f.doc,
       !.els = [f.els EXCEPT ![f.el] = [text |-> mensagem, display |-> "block"]]]

\* mostrarErro(mensagem) on the world w = [doc, value, els, timers]
MostrarErroRun(w, mensagem) ==
    LET f == FindOrCreate(w.doc, w.els) IN
    [w EXCEPT
       !.doc = f.doc,
       !.els = [f.els EXCEPT ![f.el] = [text |-> mensagem, display |-> "block"]],
       !.timers = Append(w.timers, f.el)]

\* removerErro()
RemoverErroRun(w) ==
    LET i == GetElementById(w.doc, "cep-erro") IN
    IF i # 0
    THEN [w EXCEPT !.els = [w.els EXCEPT ![w.doc[i].n].display = "none"]]
    ELSE w

\* the setTimeout callback of lines 140-144, for the element k it captured
TimerRun(w, k) ==
    [w EXCEPT !.els = [w.els EXCEPT ![k].display = "none"]]

---------------------------------------------------------------------------
(* buscarEPreencher *)

\* the callback argument: the handlers it carries (null carries none)
Callbacks == SUBSET {"success", "error"}

Result(w, outcome, fetches, logged, okCalls, errCalls) ==
    [w |-> w, outcome |-> outcome, fetches |-> fetches, logged |-> logged,
     okCalls |-> okCalls, errCalls |-> errCalls]

\* a mutant of HandleFailure: the inline error is shown in both cases
HandleFailureAlwaysShows(w, cb, error) ==
    [w |-> MostrarErroRun(w, error.message),
     errCalls |-> IF "error" \in cb THEN <<error>> ELSE <<>>]

\* lines 103-111: the catch block
HandleFailure(w, cb, error) ==
    IF "error" \in cb
    THEN [w |-> w, errCalls |-> <<error>>]
    ELSE [w |-> MostrarErroRun(w, error.message), errCalls |-> <<>>]

\* a mutant of BuscarEPreencherRun: the postal-code input is rewritten
\* before the lookup is made
BuscarEPreencherWritesFirst(w, cep, campos, cb, resp) ==
    LET r == BuscarCepRun(cep, resp)
        w1 == IF "cep" \in DOMAIN w.value
              THEN [w EXCEPT !.value = [w.value EXCEPT !["cep"] = "01310-100"]]
              ELSE w
    IN IF r.outcome.kind = "return"
       THEN LET dados == r.outcome.val IN
            Result([w1 EXCEPT !.value = PreencherEndereco(w1.value, w1.doc, dados, campos)],
                   Return(dados), r.fetches, r.logged,
                   IF "success" \in cb THEN <<dados>> ELSE <<>>, <<>>)
       ELSE LET h == HandleFailure(w1, cb, r.outcome.val) IN
            Result(h.w, Throw(r.outcome.val), r.fetches, r.logged, <<>>, h.errCalls)

\* buscarEPreencher(cep, campos, callback) when the service would answer
\* resp; the handlers return normally
BuscarEPreencherRun(w, cep, campos, cb, resp) ==
    LET r == BuscarCepRun(cep, resp) IN
    IF r.outcome.kind = "return"
    THEN LET dados == r.outcome.val IN
         Result([w EXCEPT !.value = PreencherEndereco(w.value, w.doc, dados, campos)],
                Return(dados), r.fetches, r.logged,
                IF "success" \in cb THEN <<dados>> ELSE <<>>, <<>>)
    ELSE LET h == HandleFailure(w, cb, r.outcome.val) IN
         Result(h.w, Throw(r.outcome.val), r.fetches, r.logged, <<>>, h.errCalls)

---------------------------------------------------------------------------
(* Inputs *)

EmptyMap == [k \in {} |-> ""]

CepPlain == <<"0", "1", "3", "1", "0", "1", "0", "0">>
CepShort == <<"1", "2", "3">>

\* raw codes given to buscarCep and buscarEPreencher
SampleCeps == {CepPlain, CepShort}

\* field mappings given to buscarEPreencher
SampleCampos == {EmptyMap, [cidade |-> "city-input"]}

\* a record that uses the keys of camposPadrao
BodyPadrao ==
    [cep |-> "01310-100", cidade |-> "Sao Paulo", bairro |-> "", estado |-> "SP"]

SampleDados == {BodyPadrao}

\* messages given to mostrarErro directly
SampleMensagens == {<<"CEP invalido">>}

Keys == {KeyOrder[i] : i \in 1..Len(KeyOrder)}

\* the value a record carries under key k when it is not empty
FieldValue(k) ==
    CASE k = "cidade" -> "Sao Paulo"
      [] k = "bairro" -> "Bela Vista"
      [] k = "rua" -> "Avenida Paulista"
      [] k = "estado" -> "SP"
      [] k = "cep" -> "01310-100"
      [] OTHER -> "Campinas"

\* every record over Keys: each key absent, empty or filled
AllDados ==
    {[k \in S |-> IF k \in E THEN "" ELSE FieldValue(k)] :
        <<S, E>> \in {p \in (SUBSET Keys) \X (SUBSET Keys) : p[2] \subseteq p[1]}}

OverrideTargets == {"city-input", "rua"}

\* every field mapping that overrides at most MaxOverrides keys
AllCampos ==
    UNION {[S -> OverrideTargets] :
              S \in {T \in SUBSET Keys : Cardinality(T) <= MaxOverrides}}

---------------------------------------------------------------------------
(* The state machine *)

NoCall ==
    [op |-> "init", cep |-> <<>>, campos |-> EmptyMap, dados |-> EmptyMap,
     cb |-> {}, resp |-> NetworkFailure, msg |-> <<>>, outcome |-> NoOutcome,
     okCalls |-> <<>>, errCalls |-> <<>>, fetches |-> <<>>, logged |-> <<>>]

World == [doc |-> doc, value |-> value, els |-> els, timers |-> timers]

SetWorld(w) ==
    /\ doc' = w.doc
    /\ value' = w.value
    /\ els' = w.els
    /\ timers' = w.timers

InitWorld ==
    /\ doc \in Layouts
    /\ value = [id \in IdsOf(doc) |-> OldValue]
    /\ els = <<>>
    /\ timers = <<>>
    /\ fetchLog = <<>>

Init ==
    /\ InitWorld
    /\ last = NoCall

\* await cepAPI.buscarCep(cep)
BuscarCepCall(cep, resp) ==
    LET r == BuscarCepRun(cep, resp) IN
    /\ Len(fetchLog) + Len(r.fetches) <= MaxFetch
    /\ fetchLog' = fetchLog \o r.fetches
    /\ last' = [NoCall EXCEPT !.op = "buscarCep", !.cep = cep, !.resp = resp,
                              !.outcome = r.outcome, !.fetches = r.fetches,
                              !.logged = r.logged]
    /\ UNCHANGED <<doc, value, els, timers>>

\* cepAPI.preencherEndereco(dadosCep, campos)
PreencherEnderecoCall(dadosCep, campos) ==
    /\ value' = PreencherEndereco(value, doc, dadosCep, campos)
    /\ last' = [NoCall EXCEPT !.op = "preencherEndereco", !.dados = dadosCep,
                              !.campos = campos, !.outcome = Return(<<>>)]
    /\ UNCHANGED <<doc, els, timers, fetchLog>>

\* await cepAPI.buscarEPreencher(cep, campos, callback)
BuscarEPreencherCall(cep, campos, cb, resp) ==
    LET r == BuscarEPreencherRun(World, cep, campos, cb, resp) IN
    /\ Len(fetchLog) + Len(r.fetches) <= MaxFetch
    /\ Len(r.w.timers) <= MaxTimers
    /\ Len(r.w.els) <= MaxEls
    /\ SetWorld(r.w)
    /\ fetchLog' = fetchLog \o r.fetches
    /\ last' = [NoCall EXCEPT !.op = "buscarEPreencher", !.cep = cep,
                              !.campos = campos, !.cb = cb, !.resp = resp,
                              !.outcome = r.outcome, !.okCalls = r.okCalls,
                              !.errCalls = r.errCalls, !.fetches = r.fetches,
                              !.logged = r.logged]

\* cepAPI.mostrarErro(mensagem)
MostrarErroCall(mensagem) ==
    LET w == MostrarErroRun(World, mensagem) IN
    /\ Len(w.timers) <= MaxTimers
    /\ Len(w.els) <= MaxEls
    /\ SetWorld(w)
    /\ last' = [NoCall EXCEPT !.op = "mostrarErro", !.msg = mensagem,
                              !.outcome = Return(<<>>)]
    /\ UNCHANGED fetchLog

\* cepAPI.removerErro()
RemoverErroCall ==
    /\ SetWorld(RemoverErroRun(World))
    /\ last' = [NoCall EXCEPT !.op = "removerErro", !.outcome = Return(<<>>)]
    /\ UNCHANGED fetchLog

\* the oldest pending timeout fires (all have the same delay)
TimerFire ==
    /\ timers # <<>>
    /\ SetWorld([TimerRun(World, Head(timers)) EXCEPT !.timers = Tail(timers)])
    /\ last' = [NoCall EXCEPT !.op = "timer"]
    /\ UNCHANGED fetchLog

Next ==
    \/ \E cep \in SampleCeps, resp \in Responses : BuscarCepCall(cep, resp)
    \/ \E dados \in SampleDados, campos \in SampleCampos :
          PreencherEnderecoCall(dados, campos)
    \/ \E cep \in SampleCeps, campos \in SampleCampos, cb \in Callbacks,
          resp \in Responses : BuscarEPreencherCall(cep, campos, cb, resp)
    \/ \E mensagem \in SampleMensagens : MostrarErroCall(mensagem)
    \/ RemoverErroCall
    \/ TimerFire

Spec == Init /\ [][Next]_vars

---------------------------------------------------------------------------
(* preencherEndereco over every record and mapping, one call per page *)

NextForm ==
    /\ last.op = "init"
    /\ \E dados \in AllDados, campos \in AllCampos :
          PreencherEnderecoCall(dados, campos)

SpecForm == Init /\ [][NextForm]_vars

---------------------------------------------------------------------------
(* validarCep and formatarCep over every raw string *)

InitPure ==
    /\ doc = LayoutFull
    /\ value = [id \in IdsOf(doc) |-> OldValue]
    /\ els = <<>>
    /\ timers = <<>>
    /\ fetchLog = <<>>
    /\ \E raw \in Strings : last = [NoCall EXCEPT !.cep = raw]

\* cepAPI.validarCep(cep)
ValidarCepCall ==
    /\ last' = [last EXCEPT !.op = "validarCep", !.outcome = ValidarCep(last.cep)]
    /\ UNCHANGED <<doc, value, els, timers, fetchLog>>

\* cepAPI.formatarCep(cep)
FormatarCepCall ==
    /\ last' = [last EXCEPT !.op = "formatarCep",
                            !.outcome = Return(FormatarCep(last.cep))]
    /\ UNCHANGED <<doc, value, els, timers, fetchLog>>

NextPure ==
    /\ last.op = "init"
    /\ (ValidarCepCall \/ FormatarCepCall)

SpecPure == InitPure /\ [][NextPure]_vars

---------------------------------------------------------------------------
(* The error kinds of the specification, as the code's errors *)

CleanedValid(cep) == Len(StripNonDigits(cep)) = 8

Raises(outcome, error) == outcome.kind = "throw" /\ outcome.val = error

Returns(outcome, v) == outcome.kind = "return" /\ outcome.val = v

ErrorNodes(d) == {i \in 1..Len(d) : d[i].id = "cep-erro"}

Shown(el, mensagem) == el = [text |-> mensagem, display |-> "block"]

---------------------------------------------------------------------------
(* Claims *)

\* C1 (as stated): a buscarCep call whose cleaned code has 8 digits and whose
\* response has a success status issued exactly one GET to
\* baseURL/cleanedCode and returned the decoded body unchanged.
C1_LookupReturnsBody ==
    (last.op = "buscarCep" /\ CleanedValid(last.cep)
        /\ last.resp.kind = "http" /\ Ok(last.resp))
    => /\ last.fetches = <<Url(StripNonDigits(last.cep))>>
       /\ Returns(last.outcome, last.resp.body)

\* C2 (as stated): a buscarCep call whose cleaned code does not have 8 digits
\* failed with the validation error and issued no request.
C2_InvalidCodeRaisesValidationError ==
    (last.op = "buscarCep" /\ ~CleanedValid(last.cep))
    => /\ Raises(last.outcome, ErrCepInvalido)
       /\ last.fetches = <<>>

\* C3 (as stated): for a valid code the error buscarCep raises is decided by
\* the response: 404 gives the not-found error, another non-success status
\* the service error with that status, no response the transport error.
C3_ErrorKindFollowsResponse ==
    (last.op = "buscarCep" /\ CleanedValid(last.cep))
    => /\ (last.resp.kind = "http" /\ last.resp.status = 404)
             => Raises(last.outcome, ErrCepNaoEncontrado)
       /\ (last.resp.kind = "http" /\ ~Ok(last.resp) /\ last.resp.status # 404)
             => Raises(last.outcome, ErrApi(last.resp.status))
       /\ last.resp.kind = "network" => Raises(last.outcome, ErrRede)

C5_NoPartialSuccess ==
    [][last'.op = "buscarEPreencher"
       => \/ last'.outcome.kind = "throw" /\ value' = value
          \/ /\ last'.outcome.kind = "return"
             /\ last'.outcome.val = last'.resp.body
             /\ value' = PreencherEndereco(value, doc, last'.resp.body, last'.campos)]_vars

\* C5 witness: a call raised on a page whose form already held an address
C5_Witness ==
    /\ last.op = "buscarEPreencher"
    /\ last.outcome.kind = "throw"
    /\ \E id \in DOMAIN value : value[id] # OldValue

\* the positions, in Object.keys order, of the pairs that write input id
Writers(id, dadosCep, campos) ==
    LET finais == CamposFinais(campos)
        keys == KeysOf(finais)
    IN {i \in 1..Len(keys) : finais[keys[i]] = id /\ Truthy(dadosCep, keys[i])}

Max(S) == CHOOSE x \in S : \A y \in S : y <= x

\* C6 (amended): preencherEndereco returns normally and, for every input of
\* the page, leaves its value alone when no pair (field -> its id) has a
\* non-empty value in the record, and otherwise sets it to the record's value
\* for the last such pair in key order.
C6_FillsTruthyFields ==
    last.op = "preencherEndereco"
    => /\ last.outcome.kind = "return"
       /\ DOMAIN value = IdsOf(doc)
       /\ \A id \in DOMAIN value :
             LET ws == Writers(id, last.dados, last.campos)
                 keys == KeysOf(CamposFinais(last.campos))
             IN IF ws = {} THEN value[id] = OldValue
                ELSE value[id] = last.dados[keys[Max(ws)]]

\* C6 witness: a call that wrote one input and skipped a field the record
\* holds as the empty string, whose input exists
C6_Witness ==
    /\ last.op = "preencherEndereco"
    /\ \E id \in DOMAIN value : value[id] # OldValue
    /\ \E k \in DOMAIN last.dados :
          /\ last.dados[k] = ""
          /\ CamposFinais(last.campos)[k] \in DOMAIN value
          /\ value[CamposFinais(last.campos)[k]] = OldValue

\* C6 (as stated): for each pair (field -> id) whose input exists and whose
\* field the record has, the input's value is the record's value.
C6_FillsPresentFields ==
    last.op = "preencherEndereco"
    => \A k \in DOMAIN CamposFinais(last.campos) :
          (CamposFinais(last.campos)[k] \in DOMAIN value /\ k \in DOMAIN last.dados)
          => value[CamposFinais(last.campos)[k]] = last.dados[k]

\* C7 (as stated): validarCep, called on the instance, returns true iff the
\* raw string stripped of its non-digits has exactly 8 digits.
C7_ValidateStripsAndCounts ==
    last.op = "validarCep"
    => Returns(last.outcome, Len(StripNonDigits(last.cep)) = 8)

\* the first five digits, a hyphen, the rest
Hyphenated(d) == SubSeq(d, 1, 5) \o <<"-">> \o SubSeq(d, 6, Len(d))

\* C8 (amended): formatarCep strips the non-digits and, when fewer than 8
\* digits remain, returns them unchanged; when 8 or more remain it returns
\* them with one hyphen after the fifth digit.
C8_HyphenAfterFifthOfEightOrMore ==
    last.op = "formatarCep"
    => LET d == StripNonDigits(last.cep) IN
       Returns(last.outcome, IF Len(d) >= 8 THEN Hyphenated(d) ELSE d)

\* C8 witness: a raw string with more than 8 digits was formatted
C8_Witness ==
    /\ last.op = "formatarCep"
    /\ Len(StripNonDigits(last.cep)) > 8
    /\ last.outcome.val[6] = "-"

\* C8 (as stated): exactly 8 digits give DDDDD-DDD, every other stripped
\* result is returned unchanged.
C8_HyphenOnlyForEight ==
    last.op = "formatarCep"
    => LET d == StripNonDigits(last.cep) IN
       Returns(last.outcome, IF Len(d) = 8 THEN Hyphenated(d) ELSE d)

AllHidden == \A k \in 1..Len(els) : els[k].display = "none"

\* C10: every mostrarErro call adds one pending timer and only a firing
\* removes one; when a timer fires, the element it captured and the error
\* element of the document are hidden in the resulting state; and whenever
\* no timer is pending every error element is hidden.
C10_AutoHide ==
    /\ [](timers = <<>> => AllHidden)
    /\ [][/\ last'.op = "mostrarErro" => Len(timers') = Len(timers) + 1
          /\ last'.op # "timer" => SubSeq(timers', 1, Len(timers)) = timers
          /\ last'.op = "timer"
                => /\ timers' = Tail(timers)
                   /\ els'[Head(timers)].display = "none"
                   /\ \A i \in ErrorNodes(doc') : els'[doc'[i].n].display = "none"]_vars

\* C10 witness: the last pending timer fired on an element that a later
\* mostrarErro had shown again
C10_Witness ==
    /\ last.op = "timer"
    /\ timers = <<>>
    /\ els # <<>>
    /\ AllHidden

=============================================================================
